---- MODULE Spec2Model ----
(***************************************************************************)
(* Detection-state debouncer of the elephant detection GUIs.               *)
(*                                                                         *)
(* SimpleElephantGUI and AdvancedElephantGUI carry the same debounce code  *)
(* (update_detection_display); the model follows simple_elephant_gui.py.   *)
(*                                                                         *)
(* Units: time is counted in whole seconds (time.time() is the variable    *)
(* now), confidences in hundredths (0.85 is 85), so the thresholds 0.5 and *)
(* 0.3 are 50 and 30 and the comparisons stay exact.                       *)
(*                                                                         *)
(* Vocabulary of the specification:                                        *)
(*   tier          last_detection_state  (NONE is "no_elephant")           *)
(*   active_since  detection_timer_start                                   *)
(*   locked_until  detection_timer_start + detection_timer_duration        *)
(*   observe()     update_detection_display()                              *)
(***************************************************************************)
EXTENDS Integers, Sequences, FiniteSets, TLC

VARIABLES
    now,                      \* the value time.time() returns
    running,                  \* self.running
    current_classification,   \* self.current_classification
    current_confidence,       \* self.current_confidence (hundredths)
    detection_timer_start,    \* self.detection_timer_start
    last_detection_state,     \* self.last_detection_state
    detection_locked,         \* self.detection_locked
    detection_label,          \* text and background of self.detection_label
    advanced,                 \* the three debounce fields of an
                              \* AdvancedElephantGUI given the same calls
    mock,                     \* the same fields of a MockDetectionTest
    parsed_classification,    \* history: the label of the last line that
                              \* parse_classification parsed in full
    period_continued,         \* history: the period shown was continued
                              \* after its 5 seconds at least once
    calls,                    \* the update_detection_display calls made by
                              \* the handler that ran last, in order
    rejected,                 \* the parse_classification calls of that
                              \* handler that refused their line
    connected,                \* self.connected
    data_queue,               \* self.data_queue, oldest line first
    is_labeling,              \* self.is_labeling
    current_label,            \* self.current_label
    labeling_start_time,      \* self.labeling_start_time
    labeling_buffer,          \* len(self.labeling_buffer)
    labeling_progress,        \* self.labeling_progress, in fifths
    training_data,            \* self.training_data: label and samples_count
                              \* of each entry
    start_refusal,            \* the refusal that the handler that ran last
                              \* logged in start_labeling
    serial_out,               \* what the handler that ran last wrote to
                              \* the serial port
    reader_line,              \* the line read_serial_data has read and not
                              \* yet put into the queue, NoLine if none
    ui_pc,                    \* where the event loop stands in
                              \* process_data_queue: "idle", "drain", "tick"
    ui_writes,                \* the assignments and the call the running
                              \* process_serial_line has still to make
    ui_start,                 \* history: the fields when the running
                              \* process_data_queue began
    ui_taken,                 \* history: the lines the running
                              \* process_data_queue took off the queue
    connection_attempts,      \* ESP32NoiseLoggerGUI: self.connection_attempts
    logger_connected,         \* ESP32NoiseLoggerGUI: self.connected
    connection_status,        \* ESP32NoiseLoggerGUI: text of the status label
    retry_pending,            \* ESP32NoiseLoggerGUI: root.after callbacks of
                              \* auto_connect_serial not yet run
    connect_stage,            \* ESP32NoiseLoggerGUI: where connect_to_port
                              \* stands, "idle" when it is not running
    logger_queue,             \* ESP32NoiseLoggerGUI: self.data_queue
    receiver_line,            \* ESP32NoiseLoggerGUI: the line data_receiver
                              \* has read and not yet put, <<>> if none
    logger_classification,    \* ESP32NoiseLoggerGUI: current_classification
    logger_confidence,        \* ESP32NoiseLoggerGUI: current_confidence
    detection_indicator,      \* ESP32NoiseLoggerGUI: text of the indicator
    indicator_calls,          \* history: the update_detection_indicator
                              \* calls of the handler that ran last
    elephant_shown_at,        \* history: time of the last call that showed
                              \* an elephant detection, -1 if none
    unattended_attempts       \* history: attempts made so far, as long as
                              \* none succeeded and the user did nothing;
                              \* -1 afterwards

vars == <<now, running, current_classification, current_confidence,
          detection_timer_start, last_detection_state, detection_locked,
          detection_label, advanced, mock, parsed_classification,
          period_continued, calls, rejected,
          connected, data_queue, is_labeling, current_label,
          labeling_start_time, labeling_buffer, labeling_progress,
          training_data, start_refusal, serial_out,
          reader_line, ui_pc, ui_writes, ui_start, ui_taken,
          connection_attempts, logger_connected, connection_status,
          retry_pending, connect_stage, logger_queue, receiver_line,
          logger_classification, logger_confidence, detection_indicator,
          indicator_calls, elephant_shown_at, unattended_attempts>>

(* The fields of the ESP32NoiseLoggerGUI *)
loggerVars == <<connection_attempts, logger_connected, connection_status,
                retry_pending, connect_stage, logger_queue, receiver_line,
                logger_classification, logger_confidence,
                detection_indicator, indicator_calls, elephant_shown_at,
                unattended_attempts>>

(* The reader thread's local variable and the position of the event loop   *)
(* inside process_data_queue                                               *)
threadVars == <<reader_line, ui_pc, ui_writes, ui_start, ui_taken>>

(* The fields of the serial link and of the labeling session *)
sessionVars == <<connected, data_queue, is_labeling, current_label,
                 labeling_start_time, labeling_buffer, labeling_progress, training_data>>

----------------------------------------------------------------------------
(* Bounds of the model *)

MaxTime == 12
MaxQueue == 2
MaxSamples == 1
MaxPending == 2
MaxAttempts == 5
MaxLoggerQueue == 1

(* Program constants *)

detection_timer_duration == 5
labeling_duration == 5
ConnectSleep == 2
max_connection_attempts == 3
LoggerHighThreshold == 80
LoggerMediumThreshold == 60
LoggerConnectSleep == 2
ReconnectSleep == 1
max_batch_size == 20
HighThreshold == 50
MediumThreshold == 30

----------------------------------------------------------------------------
(* Lines of the serial protocol, already cut at the commas:                *)
(* prefix is what startswith() tests, parts is line[n:].split(",").        *)

Labels == {"elephant", "not_elephant"}

(* float(): the tokens it accepts, apart from surrounding blanks, and      *)
(* their value in hundredths; any other token makes it raise ValueError.   *)
FloatTable ==
    [tok \in {"-0.1", "0.3", "0.35", "0.5", "0.6", "0.7", "0.85", "1.2"} |->
        CASE tok = "-0.1" -> -10
          [] tok = "0.3"  -> 30
          [] tok = "0.35" -> 35
          [] tok = "0.5"  -> 50
          [] tok = "0.6"  -> 60
          [] tok = "0.7"  -> 70
          [] tok = "0.85" -> 85
          [] tok = "1.2"  -> 120]

(* The confidence tokens of the CLASSIFICATION lines *)
ConfTokens == {"-0.1", "0.3", "0.35", "0.5", "0.6", "0.85", "1.2"}

(* str.strip(): removes the surrounding blanks of a token *)
Strip(tok) ==
    CASE tok = " elephant" -> "elephant"
      [] tok = " 0.85"     -> "0.85"
      [] OTHER             -> tok

(* float() ignores the surrounding blanks of its argument *)
CanFloat(tok) == Strip(tok) \in DOMAIN FloatTable

Float(tok) == FloatTable[Strip(tok)]

ClassificationLines ==
    [prefix : {"CLASSIFICATION:"},
     parts  : {<<l, c>> : l \in Labels, c \in ConfTokens}
              \cup {<<"elephant", "0.85", "high_confidence">>,
                    <<" elephant", " 0.85">>,
                    <<"elephant">>,
                    <<"elephant", "abc">>,
                    <<"not_elephant", "abc">>}]

OtherLines ==
    {[prefix |-> "FEATURES:", parts |-> <<"0.05">>],
     [prefix |-> "STATUS:", parts |-> <<"10", "1000", "2048">>]}

Lines == ClassificationLines \cup OtherLines

(* Lines that are also tried as a queue of two *)
PairLines ==
    {[prefix |-> "CLASSIFICATION:", parts |-> p] :
        p \in {<<"elephant", "0.85">>, <<"elephant", "0.35">>,
               <<"not_elephant", "0.85">>, <<"elephant", "abc">>}}

(* What the queue can hold when the callback runs: nothing, one line, or   *)
(* two lines                                                               *)
Batches ==
    {<<>>} \cup {<<l>> : l \in Lines}
           \cup {<<l1, l2>> : l1 \in PairLines, l2 \in PairLines}

(* Lines of a session at the control panel *)
SessionLines ==
    OtherLines
    \cup {[prefix |-> "ERROR:", parts |-> <<"sd card">>],
          [prefix |-> "OK:", parts |-> <<"saved">>],
          [prefix |-> "CLASSIFICATION:", parts |-> <<"elephant", "0.85">>],
          [prefix |-> "CLASSIFICATION:", parts |-> <<"not_elephant", "0.85">>]}

SessionBatches == {<<>>} \cup {<<l>> : l \in SessionLines}

(* Lines the reader thread reads *)
ReaderLines ==
    {[prefix |-> "CLASSIFICATION:", parts |-> <<"elephant", "0.85">>],
     [prefix |-> "CLASSIFICATION:", parts |-> <<"not_elephant", "0.85">>],
     [prefix |-> "STATUS:", parts |-> <<"10", "1000", "2048">>]}

(* The reader thread holds no line *)
NoLine == [prefix |-> "", parts |-> <<>>]

----------------------------------------------------------------------------
(* The object's fields as one record, so that the methods are operators    *)
(* from object state to object state.                                      *)

Self ==
    [current_classification |-> current_classification,
     current_confidence     |-> current_confidence,
     detection_timer_start  |-> detection_timer_start,
     last_detection_state   |-> last_detection_state,
     detection_locked       |-> detection_locked,
     detection_label        |-> detection_label,
     advanced               |-> advanced,
     mock                   |-> mock,
     parsed_classification  |-> parsed_classification,
     period_continued       |-> period_continued,
     calls                  |-> <<>>,
     rejected               |-> <<>>]

Debounce(s) ==
    [state  |-> s.last_detection_state,
     locked |-> s.detection_locked,
     start  |-> s.detection_timer_start]

(* The fields that parse_classification and update_detection_display      *)
(* assign                                                                  *)
Fields(s) ==
    [current_classification |-> s.current_classification,
     current_confidence     |-> s.current_confidence,
     detection_timer_start  |-> s.detection_timer_start,
     last_detection_state   |-> s.last_detection_state,
     detection_locked       |-> s.detection_locked,
     detection_label        |-> s.detection_label]

(* ui_start while process_data_queue is not running *)
NoSnapshot ==
    [fields |-> [current_classification |-> "not_elephant",
                 current_confidence     |-> 0,
                 detection_timer_start  |-> 0,
                 last_detection_state   |-> "no_elephant",
                 detection_locked       |-> FALSE,
                 detection_label        |-> [text |-> "Initializing...",
                                             bg   |-> "#333333"]],
     queued |-> 0]

(* Variant of the mapping without a low tier: an elephant at 0.3 or less   *)
(* is no detection                                                         *)
NewDetectionStateNoLowTier(classification, confidence) ==
    IF classification = "elephant"
    THEN IF confidence > HighThreshold THEN "elephant_high"
         ELSE IF confidence > MediumThreshold THEN "elephant_medium"
         ELSE "no_elephant"
    ELSE "no_elephant"

(* Variant of the mapping with inclusive comparisons (>= 0.5, >= 0.3)      *)
NewDetectionStateInclusive(classification, confidence) ==
    IF classification = "elephant"
    THEN IF confidence >= HighThreshold THEN "elephant_high"
         ELSE IF confidence >= MediumThreshold THEN "elephant_medium"
         ELSE "elephant_low"
    ELSE "no_elephant"

(* Variant of the mapping that refuses confidences outside [0, 1] *)
NewDetectionStateRangeChecked(classification, confidence) ==
    IF classification = "elephant" /\ confidence >= 0 /\ confidence <= 100
    THEN IF confidence > HighThreshold THEN "elephant_high"
         ELSE IF confidence > MediumThreshold THEN "elephant_medium"
         ELSE "elephant_low"
    ELSE "no_elephant"

(* Variant of the mapping with the thresholds 0.8 and 0.5 *)
NewDetectionStateHigherThresholds(classification, confidence) ==
    IF classification = "elephant"
    THEN IF confidence > 80 THEN "elephant_high"
         ELSE IF confidence > HighThreshold THEN "elephant_medium"
         ELSE "elephant_low"
    ELSE "no_elephant"

(* The detection state of the stored classification and confidence *)
NewDetectionState(classification, confidence) ==
    IF classification = "elephant"
    THEN IF confidence > HighThreshold THEN "elephant_high"
         ELSE IF confidence > MediumThreshold THEN "elephant_medium"
         ELSE "elephant_low"
    ELSE "no_elephant"

LabelText(state) ==
    CASE state = "elephant_high"   -> "ELEPHANT DETECTED!"
      [] state = "elephant_medium" -> "Possible Elephant"
      [] state = "elephant_low"    -> "Elephant (Low Confidence)"
      [] OTHER                     -> "No Elephant"

(* The bg= colour of the same detection_label.config calls *)
LabelBg(state) ==
    CASE state = "elephant_high"   -> "#f44336"
      [] state = "elephant_medium" -> "#FF9800"
      [] state = "elephant_low"    -> "#607D8B"
      [] OTHER                     -> "#4CAF50"

LabelConfig(state) == [text |-> LabelText(state), bg |-> LabelBg(state)]

(* Variants of the condition of the first branch *)
StartsNewPeriodUnlockedOnly(s, new) ==
    new # "no_elephant" /\ ~s.detection_locked

StartsNewPeriodAnyState(s, new) ==
    ~s.detection_locked \/ new # s.last_detection_state

StartsNewPeriodEveryDetection(s, new) == new # "no_elephant"

(* The condition of the first branch: a detection, and either no period   *)
(* is running or the detection differs from the one shown                  *)
StartsNewPeriod(s, new) ==
    /\ new # "no_elephant"
    /\ (~s.detection_locked \/ new # s.last_detection_state)

(* Variants of the expiry test *)
PeriodElapsedAlways(s, t) == t - s.detection_timer_start >= 0

PeriodElapsedStrict(s, t) ==
    t - s.detection_timer_start > detection_timer_duration

PeriodElapsedEarly(s, t) ==
    t - s.detection_timer_start >= detection_timer_duration - 1

(* elapsed >= self.detection_timer_duration *)
PeriodElapsed(s, t) ==
    t - s.detection_timer_start >= detection_timer_duration

(* Variants of the first branch's assignments *)
StartPeriodKeepTimer(s, new, t) ==
    [s EXCEPT !.detection_locked = TRUE,
              !.last_detection_state = new,
              !.detection_label = LabelConfig(new)]

StartPeriodKeepRunningTimer(s, new, t) ==
    [s EXCEPT !.detection_timer_start =
                  IF s.detection_locked THEN @ ELSE t,
              !.detection_locked = TRUE,
              !.last_detection_state = new,
              !.detection_label = LabelConfig(new)]

StartPeriodBackdated(s, new, t) ==
    [s EXCEPT !.detection_timer_start = t - detection_timer_duration,
              !.detection_locked = TRUE,
              !.last_detection_state = new,
              !.detection_label = LabelConfig(new)]

(* First branch: start a new 5-second detection period *)
StartPeriod(s, new, t) ==
    [s EXCEPT !.detection_timer_start = t,
              !.detection_locked = TRUE,
              !.last_detection_state = new,
              !.detection_label = LabelConfig(new)]

(* Variant of the release that forgets to clear detection_locked *)
ReleasePeriodKeepLock(s) ==
    [s EXCEPT !.detection_label = LabelConfig("no_elephant"),
              !.last_detection_state = "no_elephant"]

(* Period finished and nothing detected: back to "No Elephant" *)
ReleasePeriod(s) ==
    [s EXCEPT !.detection_locked = FALSE,
              !.detection_label = LabelConfig("no_elephant"),
              !.last_detection_state = "no_elephant"]

(* Variant of the continuation that stops at detection_locked = False *)
ContinuePeriodUnlocked(s, new, t) ==
    [s EXCEPT !.detection_locked = FALSE]

(* Period finished and the detection is still active: continue with it *)
ContinuePeriod(s, new, t) ==
    [s EXCEPT !.detection_timer_start = t,
              !.detection_locked = TRUE,
              !.last_detection_state = new]

(* Last branch: no lock and nothing detected *)
ShowNoElephant(s) ==
    [s EXCEPT !.detection_label = LabelConfig("no_elephant"),
              !.last_detection_state = "no_elephant"]

(* The four branches of update_detection_display *)
DetectionStep(s, new, t) ==
    IF StartsNewPeriod(s, new)
    THEN StartPeriod(s, new, t)
    ELSE IF s.detection_locked
    THEN IF PeriodElapsed(s, t)
         THEN IF new = "no_elephant"
              THEN ReleasePeriod(s)
              ELSE ContinuePeriod(s, new, t)
         ELSE s
    ELSE IF ~s.detection_locked /\ new = "no_elephant"
    THEN ShowNoElephant(s)
    ELSE s

(* Variant of the bell that rings for every elephant_high update *)
RingsBellWheneverHigh(s, new) == new = "elephant_high"

(* root.bell() is called in the first branch only, for elephant_high *)
RingsBell(s, new) ==
    StartsNewPeriod(s, new) /\ new = "elephant_high"

(* Variant of the countdown that shows the elapsed time *)
TimerLabelElapsed(s, t) ==
    IF s.detection_locked /\ s.last_detection_state # "no_elephant"
    THEN [shown |-> TRUE, remaining |-> t - s.detection_timer_start]
    ELSE [shown |-> FALSE, remaining |-> 0]

(* AdvancedElephantGUI.update_detection_display on the three debounce     *)
(* fields d, transcribed branch by branch; the variant measures the        *)
(* elapsed time with > instead of >=                                       *)
AdvancedUpdateDetectionDisplayStrict(d, classification, confidence, t) ==
    LET new_detection_state ==
            IF classification = "elephant"
            THEN IF confidence > 50 THEN "elephant_high"
                 ELSE IF confidence > 30 THEN "elephant_medium"
                 ELSE "elephant_low"
            ELSE "no_elephant"
    IN  IF /\ new_detection_state # "no_elephant"
           /\ (~d.locked \/ new_detection_state # d.state)
        THEN [state |-> new_detection_state, locked |-> TRUE, start |-> t]
        ELSE IF d.locked
        THEN IF t - d.start > 5
             THEN IF new_detection_state = "no_elephant"
                  THEN [d EXCEPT !.locked = FALSE, !.state = "no_elephant"]
                  ELSE [state |-> new_detection_state, locked |-> TRUE,
                        start |-> t]
             ELSE d
        ELSE IF ~d.locked /\ new_detection_state = "no_elephant"
        THEN [d EXCEPT !.state = "no_elephant"]
        ELSE d

AdvancedUpdateDetectionDisplay(d, classification, confidence, t) ==
    LET new_detection_state ==
            IF classification = "elephant"
            THEN IF confidence > 50 THEN "elephant_high"
                 ELSE IF confidence > 30 THEN "elephant_medium"
                 ELSE "elephant_low"
            ELSE "no_elephant"
    IN  IF /\ new_detection_state # "no_elephant"
           /\ (~d.locked \/ new_detection_state # d.state)
        THEN [state |-> new_detection_state, locked |-> TRUE, start |-> t]
        ELSE IF d.locked
        THEN IF t - d.start >= 5
             THEN IF new_detection_state = "no_elephant"
                  THEN [d EXCEPT !.locked = FALSE, !.state = "no_elephant"]
                  ELSE [state |-> new_detection_state, locked |-> TRUE,
                        start |-> t]
             ELSE d
        ELSE IF ~d.locked /\ new_detection_state = "no_elephant"
        THEN [d EXCEPT !.state = "no_elephant"]
        ELSE d

(* MockDetectionTest.update_detection_display of test_detection_logic.py,  *)
(* transcribed the same way                                                *)
MockUpdateDetectionDisplay(d, classification, confidence, t) ==
    LET new_detection_state ==
            IF classification = "elephant"
            THEN IF confidence > 50 THEN "elephant_high"
                 ELSE IF confidence > 30 THEN "elephant_medium"
                 ELSE "elephant_low"
            ELSE "no_elephant"
    IN  IF /\ new_detection_state # "no_elephant"
           /\ (~d.locked \/ new_detection_state # d.state)
        THEN [state |-> new_detection_state, locked |-> TRUE, start |-> t]
        ELSE IF d.locked
        THEN LET elapsed == t - d.start
             IN  IF elapsed >= 5
                 THEN IF new_detection_state = "no_elephant"
                      THEN [d EXCEPT !.locked = FALSE,
                                     !.state = "no_elephant"]
                      ELSE [d EXCEPT !.start = t, !.locked = TRUE,
                                     !.state = new_detection_state]
                 ELSE d
        ELSE IF ~d.locked /\ new_detection_state = "no_elephant"
        THEN [d EXCEPT !.state = "no_elephant"]
        ELSE d

(* The timer display at the end of update_detection_display: the          *)
(* remaining time max(0, duration - (current_time - start)) while locked   *)
(* on a detection, the empty text otherwise                                *)
TimerLabel(s, t) ==
    IF s.detection_locked /\ s.last_detection_state # "no_elephant"
    THEN LET left == detection_timer_duration
                         - (t - s.detection_timer_start)
         IN  [shown |-> TRUE, remaining |-> IF left > 0 THEN left ELSE 0]
    ELSE [shown |-> FALSE, remaining |-> 0]

(* update_detection_display at time t; the call is appended to calls.     *)
(* via tells the caller: "parse" (parse_classification), and, once marked  *)
(* by the handler, "tick" (process_data_queue) or "test" (TEST button).    *)
UpdateDetectionDisplay(s, t) ==
    LET new   == NewDetectionState(s.current_classification,
                                   s.current_confidence)
        after == DetectionStep(s, new, t)
        cont  == IF after.last_detection_state # s.last_detection_state
                 THEN FALSE
                 ELSE s.period_continued
                      \/ after.detection_timer_start
                             # s.detection_timer_start
    IN  [after EXCEPT
            !.advanced = AdvancedUpdateDetectionDisplay(
                             s.advanced, s.current_classification,
                             s.current_confidence, t),
            !.mock = MockUpdateDetectionDisplay(
                         s.mock, s.current_classification,
                         s.current_confidence, t),
            !.period_continued = cont,
            !.calls =
            Append(s.calls,
                   [t              |-> t,
                    via            |-> "parse",
                    classification |-> s.current_classification,
                    confidence     |-> s.current_confidence,
                    new            |-> new,
                    before         |-> Debounce(s),
                    after          |-> Debounce(after),
                    parsed         |-> s.parsed_classification,
                    continued      |-> s.period_continued,
                    label          |-> after.detection_label,
                    timer          |-> TimerLabel(after, t),
                    bell           |-> RingsBell(s, new)])]

(* The handler that made the last call of s.calls *)
Via(s, who) == [s EXCEPT !.calls[Len(s.calls)].via = who]

Stored(s) ==
    [classification |-> s.current_classification,
     confidence     |-> s.current_confidence]

(* A refused line (the else branch or the except clause, which only log):  *)
(* the object is left as after, and the refusal is appended to rejected    *)
Refused(before, after, parts) ==
    [after EXCEPT !.rejected =
        Append(before.rejected,
               [parts         |-> parts,
                stored_kept   |-> Stored(after) = Stored(before),
                stored        |-> Stored(after),
                debounce_kept |-> Debounce(after) = Debounce(before)])]

(* parse_classification: parts[0] is stored before float(parts[1]) can     *)
(* raise; the except clause only logs.                                     *)
ParseClassification(s, parts, t) ==
    IF Len(parts) >= 2
    THEN LET s1 == [s EXCEPT !.current_classification = Strip(parts[1])]
         IN  IF CanFloat(Strip(parts[2]))
             THEN UpdateDetectionDisplay(
                      [s1 EXCEPT !.current_confidence =
                                     Float(Strip(parts[2])),
                                 !.parsed_classification =
                                     Strip(parts[1])], t)
             ELSE Refused(s, s1, parts)
    ELSE Refused(s, s, parts)

(* Variant of the dispatcher in which an ERROR line clears the display *)
ProcessSerialLineErrorClears(s, line, t) ==
    IF line.prefix = "CLASSIFICATION:"
    THEN ParseClassification(s, line.parts, t)
    ELSE IF line.prefix = "ERROR:"
         THEN ShowNoElephant(ReleasePeriod(s))
         ELSE s

(* process_serial_line: only CLASSIFICATION lines reach the debounce state *)
ProcessSerialLine(s, line, t) ==
    IF line.prefix = "CLASSIFICATION:"
    THEN ParseClassification(s, line.parts, t)
    ELSE s

RECURSIVE ProcessLines(_, _, _)
ProcessLines(s, batch, t) ==
    IF batch = <<>>
    THEN s
    ELSE ProcessLines(ProcessSerialLine(s, Head(batch), t), Tail(batch), t)

(* process_data_queue: drain the queue, then the countdown update *)
ProcessDataQueueResult(s, batch, t) ==
    LET drained == ProcessLines(s, batch, t)
    IN  IF running /\ drained.detection_locked
        THEN Via(UpdateDetectionDisplay(drained, t), "tick")
        ELSE drained

(* test_elephant_detection: the TEST button *)
TestElephantDetectionResult(s, t) ==
    Via(ParseClassification(s, <<"elephant", "0.85", "high_confidence">>, t),
        "test")

Install(s) ==
    /\ current_classification' = s.current_classification
    /\ current_confidence' = s.current_confidence
    /\ detection_timer_start' = s.detection_timer_start
    /\ last_detection_state' = s.last_detection_state
    /\ detection_locked' = s.detection_locked
    /\ detection_label' = s.detection_label
    /\ advanced' = s.advanced
    /\ mock' = s.mock
    /\ parsed_classification' = s.parsed_classification
    /\ period_continued' = s.period_continued
    /\ calls' = s.calls
    /\ rejected' = s.rejected
    /\ UNCHANGED <<loggerVars, threadVars>>

----------------------------------------------------------------------------
(* Initial state: __init__ *)

Init ==
    /\ now = 0
    /\ running = TRUE
    /\ current_classification = "not_elephant"
    /\ current_confidence = 0
    /\ detection_timer_start = 0
    /\ last_detection_state = "no_elephant"
    /\ detection_locked = FALSE
    /\ detection_label = [text |-> "Initializing...", bg |-> "#333333"]
    /\ advanced = [state |-> "no_elephant", locked |-> FALSE, start |-> 0]
    /\ mock = [state |-> "no_elephant", locked |-> FALSE, start |-> 0]
    /\ parsed_classification = "not_elephant"
    /\ period_continued = FALSE
    /\ calls = <<>>
    /\ rejected = <<>>
    /\ connected = FALSE
    /\ data_queue = <<>>
    /\ is_labeling = FALSE
    /\ current_label = "None"
    /\ labeling_start_time = 0
    /\ labeling_buffer = 0
    /\ labeling_progress = 0
    /\ start_refusal = "none"
    /\ training_data = <<>>
    /\ serial_out = <<>>
    /\ reader_line = NoLine
    /\ ui_pc = "idle"
    /\ ui_writes = <<>>
    /\ ui_start = NoSnapshot
    /\ ui_taken = <<>>
    /\ connection_attempts = 0
    /\ logger_connected = FALSE
    /\ connection_status = "Searching for ESP32..."
    /\ retry_pending = 1
    /\ connect_stage = "idle"
    /\ logger_queue = <<>>
    /\ receiver_line = <<>>
    /\ logger_classification = "not_elephant"
    /\ logger_confidence = 0
    /\ detection_indicator = "INITIALIZING..."
    /\ indicator_calls = <<>>
    /\ elephant_shown_at = -1
    /\ unattended_attempts = 0

(* The clock advances between two callbacks of the event loop; inside     *)
(* connect_to_port of the noise logger the time is that of its sleeps     *)
Advance ==
    /\ running
    /\ connect_stage = "idle"
    /\ ui_pc = "idle"
    /\ now < MaxTime
    /\ now' = now + 1
    /\ calls' = <<>>
    /\ rejected' = <<>>
    /\ UNCHANGED <<running, current_classification, current_confidence,
                   detection_timer_start, last_detection_state,
                   detection_locked, detection_label, advanced, mock,
                   parsed_classification, period_continued>>
    /\ UNCHANGED sessionVars
    /\ serial_out' = <<>>
    /\ start_refusal' = "none"
    /\ indicator_calls' = <<>>
    /\ UNCHANGED <<connection_attempts, logger_connected, connection_status,
                   retry_pending, connect_stage, logger_queue, receiver_line,
                   logger_classification, logger_confidence,
                   detection_indicator, elephant_shown_at,
                   unattended_attempts>>
    /\ UNCHANGED threadVars

(* The 50 ms callback, with the lines the reader thread queued since the   *)
(* previous callback                                                       *)
ProcessDataQueue ==
    /\ running
    /\ \E batch \in Batches :
          Install(ProcessDataQueueResult(Self, batch, now))
    /\ UNCHANGED <<now, running>>
    /\ UNCHANGED sessionVars
    /\ serial_out' = <<>>
    /\ start_refusal' = "none"

TestElephantDetection ==
    /\ running
    /\ Install(TestElephantDetectionResult(Self, now))
    /\ UNCHANGED <<now, running>>
    /\ UNCHANGED sessionVars
    /\ serial_out' = <<>>
    /\ start_refusal' = "none"

(* on_closing: the window is destroyed, no callback runs afterwards *)
OnClosing ==
    /\ running
    /\ running' = FALSE
    /\ calls' = <<>>
    /\ rejected' = <<>>
    /\ UNCHANGED <<now, current_classification, current_confidence,
                   detection_timer_start, last_detection_state,
                   detection_locked, detection_label, advanced, mock,
                   parsed_classification, period_continued>>
    /\ UNCHANGED sessionVars
    /\ serial_out' = <<>>
    /\ start_refusal' = "none"
    /\ UNCHANGED <<loggerVars, threadVars>>

Next ==
    \/ Advance
    \/ ProcessDataQueue
    \/ TestElephantDetection
    \/ OnClosing

Spec == Init /\ [][Next]_vars

----------------------------------------------------------------------------
(* A quiet session: nothing is connected, no line arrives, and the TEST    *)
(* button is clicked once; the 50 ms callback keeps running.               *)

(* process_data_queue with an empty queue *)
Tick ==
    /\ running
    /\ Install(ProcessDataQueueResult(Self, <<>>, now))
    /\ UNCHANGED <<now, running>>
    /\ UNCHANGED sessionVars
    /\ serial_out' = <<>>
    /\ start_refusal' = "none"

(* The one click: no classification has been stored before it *)
SingleTestClick ==
    /\ current_classification = "not_elephant"
    /\ TestElephantDetection

NextQuiet ==
    \/ Advance
    \/ Tick
    \/ SingleTestClick

SpecQuiet == Init /\ [][NextQuiet]_vars

----------------------------------------------------------------------------
(* The serial link and the commands of the control panel.                  *)

(* The fields update_detection_display and the parsers write *)
objectVars == <<current_classification, current_confidence,
                detection_timer_start, last_detection_state,
                detection_locked, detection_label, advanced, mock,
                parsed_classification, period_continued>>

(* A handler that calls neither a parser nor update_detection_display *)
NoDetectionCall ==
    /\ calls' = <<>>
    /\ rejected' = <<>>
    /\ UNCHANGED objectVars
    /\ UNCHANGED <<loggerVars, threadVars>>

(* connect_to_port: serial.Serial() raises or succeeds; on success the     *)
(* handler sleeps ConnectSleep seconds before it sets connected and starts *)
(* the reader thread                                                       *)
ConnectToPort ==
    /\ running
    /\ ui_pc = "idle"
    /\ ~connected
    /\ \E opened \in BOOLEAN :
          /\ opened => now + ConnectSleep <= MaxTime
          /\ now' = IF opened THEN now + ConnectSleep ELSE now
          /\ connected' = opened
    /\ NoDetectionCall
    /\ serial_out' = <<>>
    /\ start_refusal' = "none"
    /\ UNCHANGED <<running, data_queue, is_labeling, current_label,
                   labeling_start_time, labeling_buffer, labeling_progress, training_data>>

(* disconnect_esp32 *)
DisconnectEsp32 ==
    /\ running
    /\ ui_pc = "idle"
    /\ connected
    /\ connected' = FALSE
    /\ NoDetectionCall
    /\ serial_out' = <<>>
    /\ start_refusal' = "none"
    /\ UNCHANGED <<now, running, data_queue, is_labeling, current_label,
                   labeling_start_time, labeling_buffer, labeling_progress, training_data>>

(* A command handler: the command is written if connected *)
Command(cmd) ==
    /\ serial_out' = IF connected THEN <<cmd>> ELSE <<>>
    /\ start_refusal' = "none"
    /\ NoDetectionCall
    /\ UNCHANGED <<now, running, connected, data_queue, is_labeling,
                   current_label, labeling_start_time, labeling_buffer,
                   labeling_progress, training_data>>

(* send_label *)
SendLabel ==
    /\ running
    /\ \E label \in Labels : Command([cmd |-> "LABEL", arg |-> label])

(* save_data *)
SaveData ==
    /\ running
    /\ Command([cmd |-> "SAVE_DATA", arg |-> ""])

(* clear_data: the confirmation dialog is answered yes or no; on yes,     *)
(* when connected, CLEAR_DATA is written and training_data is emptied      *)
ClearData ==
    /\ running
    /\ \E yes \in BOOLEAN :
          IF yes /\ connected
          THEN /\ serial_out' = <<[cmd |-> "CLEAR_DATA", arg |-> ""]>>
               /\ training_data' = <<>>
          ELSE /\ serial_out' = <<>>
               /\ UNCHANGED training_data
    /\ start_refusal' = "none"
    /\ NoDetectionCall
    /\ UNCHANGED <<now, running, connected, data_queue, is_labeling,
                   current_label, labeling_start_time, labeling_buffer,
                   labeling_progress>>

----------------------------------------------------------------------------
(* The 5-second labeling session of AdvancedElephantGUI.                   *)
(* self.current_features is not a variable of the model: whether it holds *)
(* features when update_labeling_progress looks at it is an input.         *)

(* Variant of finish_labeling that stores an entry for an empty buffer too *)
FinishLabelingAlwaysStores(label, buf) ==
    /\ training_data' =
          Append(training_data, [label |-> label, samples_count |-> buf])
    /\ serial_out' =
          IF connected
          THEN <<[cmd |-> "LABEL", arg |-> label]>>
          ELSE <<>>
    /\ start_refusal' = "none"
    /\ is_labeling' = FALSE
    /\ current_label' = "None"
    /\ labeling_buffer' = 0
    /\ labeling_progress' = 0

(* finish_labeling, entered with a buffer of buf entries *)
FinishLabeling(label, buf) ==
    /\ training_data' =
          IF buf > 0
          THEN Append(training_data, [label |-> label, samples_count |-> buf])
          ELSE training_data
    /\ serial_out' =
          IF buf > 0 /\ connected
          THEN <<[cmd |-> "LABEL", arg |-> label]>>
          ELSE <<>>
    /\ start_refusal' = "none"
    /\ is_labeling' = FALSE
    /\ current_label' = "None"
    /\ labeling_buffer' = 0
    /\ labeling_progress' = 0

(* The body of update_labeling_progress for a session started at start *)
LabelingProgress(start, label, buffer, has_features) ==
    LET elapsed == now - start
        buf     == IF has_features THEN buffer + 1 ELSE buffer
    IN  /\ has_features => buffer < MaxSamples
        /\ labeling_start_time' = start
        /\ IF elapsed >= labeling_duration
           THEN FinishLabeling(label, buf)
           ELSE /\ is_labeling' = TRUE
                /\ current_label' = label
                /\ labeling_buffer' = buf
                /\ labeling_progress' = elapsed
                /\ serial_out' = <<>>
                /\ start_refusal' = "none"
                /\ UNCHANGED training_data

(* Variant of the test of start_labeling that only asks for a connection *)
StartsSessionWhenConnected(conn, labeling) == conn

(* The two early returns of start_labeling *)
StartsSession(conn, labeling) == conn /\ ~labeling

(* start_labeling: refused when not connected or already labeling,         *)
(* otherwise the session starts and the first progress update runs; a      *)
(* session is started only if its 5 seconds end by MaxTime                 *)
StartLabeling ==
    /\ running
    /\ \E label \in Labels, has_features \in BOOLEAN :
          IF StartsSession(connected, is_labeling)
          THEN /\ now + labeling_duration <= MaxTime
               /\ LabelingProgress(now, label, 0, has_features)
          ELSE /\ UNCHANGED <<is_labeling, current_label, labeling_start_time,
                              labeling_buffer, labeling_progress,
                              training_data>>
               /\ start_refusal' = IF ~connected THEN "Not connected"
                                                 ELSE "Already labeling"
               /\ serial_out' = <<>>
    /\ NoDetectionCall
    /\ UNCHANGED <<now, running, connected, data_queue>>

(* update_labeling_progress, the 100 ms callback of a running session *)
UpdateLabelingProgress ==
    /\ running
    /\ is_labeling
    /\ \E has_features \in BOOLEAN :
          LabelingProgress(labeling_start_time, current_label,
                           labeling_buffer, has_features)
    /\ NoDetectionCall
    /\ UNCHANGED <<now, running, connected, data_queue>>

(* The 50 ms callback of a session: the lines the reader thread queued     *)
(* are processed whether or not the port is still connected                *)
ProcessSessionLines ==
    /\ running
    /\ \E batch \in SessionBatches :
          Install(ProcessDataQueueResult(Self, batch, now))
    /\ UNCHANGED <<now, running>>
    /\ UNCHANGED sessionVars
    /\ serial_out' = <<>>
    /\ start_refusal' = "none"

NextSession ==
    \/ Advance
    \/ ConnectToPort
    \/ DisconnectEsp32
    \/ ProcessSessionLines
    \/ SendLabel
    \/ SaveData
    \/ ClearData
    \/ StartLabeling
    \/ UpdateLabelingProgress

SpecSession == Init /\ [][NextSession]_vars

(* The labeling sessions with the connection and the command buttons; the  *)
(* progress timer fires again and again while a session runs               *)
(* (root.after(100, ...)), and the clock goes on                           *)
NextLabeling ==
    \/ Advance
    \/ ConnectToPort
    \/ DisconnectEsp32
    \/ SaveData
    \/ ClearData
    \/ StartLabeling
    \/ UpdateLabelingProgress

SpecLabeling ==
    /\ Init
    /\ [][NextLabeling]_vars
    /\ WF_vars(UpdateLabelingProgress)
    /\ WF_vars(Advance)

----------------------------------------------------------------------------
(* The reader thread and the event loop side by side.                      *)

(* Between two reader steps the event loop may stand anywhere inside       *)
(* process_data_queue: its statements are steps of their own, in the order *)
(* of the source.  No time passes and no other callback runs while a       *)
(* callback is running.                                                    *)

(* One statement the running callback has still to execute: an assignment  *)
(* to the field f (of b, n or s, by the field's type), or the call of      *)
(* update_detection_display                                                *)
Write(f, b, n, s) == [f |-> f, b |-> b, n |-> n, s |-> s]

CallUpdateDetectionDisplay == Write("update_detection_display", FALSE, 0, "")

(* parse_classification, statement by statement *)
ParseClassificationWrites(parts) ==
    IF Len(parts) >= 2
    THEN <<Write("current_classification", FALSE, 0, Strip(parts[1]))>>
         \o (IF CanFloat(Strip(parts[2]))
             THEN <<Write("current_confidence", FALSE,
                          Float(Strip(parts[2])), ""),
                    CallUpdateDetectionDisplay>>
             ELSE <<>>)
    ELSE <<>>

(* process_serial_line, statement by statement *)
ProcessSerialLineWrites(line) ==
    IF line.prefix = "CLASSIFICATION:"
    THEN ParseClassificationWrites(line.parts)
    ELSE <<>>

(* update_detection_display entered on the fields s at time t: the         *)
(* assignments of the branch it takes, in the order of the source          *)
UpdateDetectionDisplayWrites(s, t) ==
    LET new == NewDetectionState(s.current_classification,
                                 s.current_confidence)
    IN  IF StartsNewPeriod(s, new)
        THEN <<Write("detection_timer_start", FALSE, t, ""),
               Write("detection_locked", TRUE, 0, ""),
               Write("last_detection_state", FALSE, 0, new),
               Write("detection_label", FALSE, 0, new)>>
        ELSE IF s.detection_locked
        THEN IF PeriodElapsed(s, t)
             THEN <<Write("detection_locked", FALSE, 0, "")>>
                  \o (IF new = "no_elephant"
                      THEN <<Write("detection_label", FALSE, 0,
                                   "no_elephant"),
                             Write("last_detection_state", FALSE, 0,
                                   "no_elephant")>>
                      ELSE <<Write("detection_timer_start", FALSE, t, ""),
                             Write("detection_locked", TRUE, 0, ""),
                             Write("last_detection_state", FALSE, 0, new)>>)
             ELSE <<>>
        ELSE IF new = "no_elephant"
        THEN <<Write("detection_label", FALSE, 0, "no_elephant"),
               Write("last_detection_state", FALSE, 0, "no_elephant")>>
        ELSE <<>>

(* What a step of the reader thread or a statement of the running          *)
(* callback leaves alone                                                   *)
ThreadFrame ==
    /\ UNCHANGED <<now, running, connected, is_labeling, current_label,
                   labeling_start_time, labeling_buffer, labeling_progress,
                   training_data, start_refusal, serial_out>>
    /\ UNCHANGED <<advanced, mock, parsed_classification, period_continued,
                   calls, rejected>>
    /\ UNCHANGED loggerVars

DebounceFields == <<current_classification, current_confidence,
                    detection_timer_start, last_detection_state,
                    detection_locked, detection_label>>

(* Variant of the reader that processes the line it read itself *)
ReaderFieldsProcessed(s, line, t) == ProcessSerialLine(s, line, t)

(* What read_serial_data does to the object's fields when it puts a line:  *)
(* nothing, the line only goes into the queue                              *)
ReaderFields(s, line, t) == s

(* read_serial_data: the loop head found connected set and readline()      *)
(* returned a non-empty line.  connect_to_port starts a thread for every   *)
(* connection; a thread of an earlier connection that still holds its line *)
(* is not told apart from the present one, the queue receives the same     *)
(* lines in the same order.                                                *)
ReadSerialData ==
    /\ connected
    /\ reader_line = NoLine
    /\ \E line \in ReaderLines : reader_line' = line
    /\ UNCHANGED <<data_queue, ui_pc, ui_writes, ui_start, ui_taken>>
    /\ UNCHANGED DebounceFields
    /\ ThreadFrame

(* read_serial_data: self.data_queue.put(line), whatever happened to       *)
(* connected since the line was read.  A callback takes at most MaxQueue   *)
(* lines.                                                                  *)
ReaderPuts ==
    /\ reader_line # NoLine
    /\ Len(data_queue) + Len(ui_taken) < MaxQueue
    /\ data_queue' = Append(data_queue, reader_line)
    /\ reader_line' = NoLine
    /\ LET s == ReaderFields(Self, reader_line, now)
       IN  /\ current_classification' = s.current_classification
           /\ current_confidence' = s.current_confidence
           /\ detection_timer_start' = s.detection_timer_start
           /\ last_detection_state' = s.last_detection_state
           /\ detection_locked' = s.detection_locked
           /\ detection_label' = s.detection_label
    /\ UNCHANGED <<ui_pc, ui_writes, ui_start, ui_taken>>
    /\ ThreadFrame

(* process_data_queue is called by the event loop *)
ProcessDataQueueStarts ==
    /\ running
    /\ ui_pc = "idle"
    /\ ui_pc' = "drain"
    /\ ui_start' = [fields |-> Fields(Self), queued |-> Len(data_queue)]
    /\ UNCHANGED <<data_queue, reader_line, ui_writes, ui_taken>>
    /\ UNCHANGED DebounceFields
    /\ ThreadFrame

(* process_data_queue: the queue is not empty, get_nowait() takes its      *)
(* first line and process_serial_line is entered with it                   *)
ProcessDataQueueTakes ==
    /\ ui_pc = "drain"
    /\ ui_writes = <<>>
    /\ data_queue # <<>>
    /\ data_queue' = Tail(data_queue)
    /\ ui_taken' = Append(ui_taken, Head(data_queue))
    /\ ui_writes' = ProcessSerialLineWrites(Head(data_queue))
    /\ UNCHANGED <<reader_line, ui_pc, ui_start>>
    /\ UNCHANGED DebounceFields
    /\ ThreadFrame

(* The running callback enters update_detection_display: the branch is     *)
(* chosen on the fields as they are now                                    *)
UpdateDetectionDisplayEntered ==
    /\ ui_writes # <<>>
    /\ Head(ui_writes).f = "update_detection_display"
    /\ ui_writes' = UpdateDetectionDisplayWrites(Self, now)
                        \o Tail(ui_writes)
    /\ UNCHANGED <<data_queue, reader_line, ui_pc, ui_start, ui_taken>>
    /\ UNCHANGED DebounceFields
    /\ ThreadFrame

(* The running callback executes one assignment *)
EventLoopAssigns ==
    /\ ui_writes # <<>>
    /\ Head(ui_writes).f # "update_detection_display"
    /\ LET w == Head(ui_writes)
       IN  /\ current_classification' =
                  IF w.f = "current_classification"
                  THEN w.s ELSE current_classification
           /\ current_confidence' =
                  IF w.f = "current_confidence"
                  THEN w.n ELSE current_confidence
           /\ detection_timer_start' =
                  IF w.f = "detection_timer_start"
                  THEN w.n ELSE detection_timer_start
           /\ detection_locked' =
                  IF w.f = "detection_locked"
                  THEN w.b ELSE detection_locked
           /\ last_detection_state' =
                  IF w.f = "last_detection_state"
                  THEN w.s ELSE last_detection_state
           /\ detection_label' =
                  IF w.f = "detection_label"
                  THEN LabelConfig(w.s) ELSE detection_label
    /\ ui_writes' = Tail(ui_writes)
    /\ UNCHANGED <<data_queue, reader_line, ui_pc, ui_start, ui_taken>>
    /\ ThreadFrame

(* process_data_queue: the queue is empty; the countdown update is made    *)
(* if a period is running                                                  *)
ProcessDataQueueTicks ==
    /\ ui_pc = "drain"
    /\ ui_writes = <<>>
    /\ data_queue = <<>>
    /\ ui_pc' = "tick"
    /\ ui_writes' = IF running /\ detection_locked
                    THEN <<CallUpdateDetectionDisplay>>
                    ELSE <<>>
    /\ UNCHANGED <<data_queue, reader_line, ui_start, ui_taken>>
    /\ UNCHANGED DebounceFields
    /\ ThreadFrame

(* process_data_queue returns to the event loop *)
ProcessDataQueueEnds ==
    /\ ui_pc = "tick"
    /\ ui_writes = <<>>
    /\ ui_pc' = "idle"
    /\ ui_start' = NoSnapshot
    /\ ui_taken' = <<>>
    /\ UNCHANGED <<data_queue, reader_line, ui_writes>>
    /\ UNCHANGED DebounceFields
    /\ ThreadFrame

NextThreads ==
    \/ Advance
    \/ ConnectToPort
    \/ DisconnectEsp32
    \/ ReadSerialData
    \/ ReaderPuts
    \/ ProcessDataQueueStarts
    \/ ProcessDataQueueTakes
    \/ UpdateDetectionDisplayEntered
    \/ EventLoopAssigns
    \/ ProcessDataQueueTicks
    \/ ProcessDataQueueEnds

SpecThreads == Init /\ [][NextThreads]_vars

----------------------------------------------------------------------------
(* ESP32NoiseLoggerGUI (noise_logger_gui.py): automatic connection and the *)
(* detection indicator.  What the ports do when auto_connect_serial probes *)
(* them is an input, one of ProbeEnvs.  Time is in whole seconds: a        *)
(* handler's sleeps are summed in tenths and rounded down.                 *)

(* The fields of every action of the other two GUIs *)
guiVars == <<running, objectVars, calls, rejected, sessionVars,
            start_refusal, serial_out, threadVars>>

(* connect_to_port stands in time.sleep(2) after the port opened           *)
(* ("resetting"), in time.sleep(0.1) between its two writes ("syncing"),   *)
(* or is not running ("idle"); the event loop is blocked meanwhile, the    *)
(* data_receiver thread is not                                             *)
ConnectStages == {"idle", "resetting", "syncing"}

(* What test_esp32_connection does on a port: serial.Serial() raises, a    *)
(* firmware answer is read after the first, second or third command, or    *)
(* no answer comes                                                         *)
TestResults == {"raise", "ok1", "ok2", "ok3", "silent"}

TestPasses(r) == r \in {"ok1", "ok2", "ok3"}

(* Tenths of a second test_esp32_connection sleeps: 2 s, then 0.5 s after  *)
(* every command it writes                                                 *)
TestTenths(r) ==
    CASE r = "raise" -> 0
      [] r = "ok1" -> 20 + 5
      [] r = "ok2" -> 20 + 10
      [] OTHER -> 20 + 15

(* test_esp32_connection_extended: 3 s, three commands 1 s apart, ten      *)
(* reads 0.2 s apart                                                       *)
ExtendedResults == {"raise", "ok", "silent"}

ExtendedTenths(r) == IF r = "raise" THEN 0 ELSE 30 + 30 + 20

(* What auto_connect_serial meets: whether a port is listed, whether       *)
(* find_esp32_port names it, and what the tests of the three strategies    *)
(* do on it (one listed port)                                              *)
ProbeEnvs ==
    [ports : BOOLEAN, hardware : BOOLEAN, first : TestResults,
     second : TestResults, extended : ExtendedResults]

(* The probing of auto_connect_serial: whether a port is handed to         *)
(* connect_to_port and the tenths of a second slept until then             *)
Probe(e) ==
    LET t1 == IF e.hardware THEN TestTenths(e.first) ELSE 0
        t2 == t1 + TestTenths(e.second)
    IN  IF ~e.ports
        THEN [found |-> FALSE, tenths |-> 0]
        ELSE IF e.hardware /\ TestPasses(e.first)
        THEN [found |-> TRUE, tenths |-> t1]
        ELSE IF TestPasses(e.second)
        THEN [found |-> TRUE, tenths |-> t2]
        ELSE [found  |-> e.extended = "ok",
              tenths |-> t2 + ExtendedTenths(e.extended)]

ProbeRuns == {Probe(e) : e \in ProbeEnvs}

(* Whole seconds of a handler's sleeps *)
Seconds(tenths) == tenths \div 10

Logger ==
    [attempts  |-> connection_attempts,
     connected |-> logger_connected,
     status    |-> connection_status,
     pending   |-> retry_pending,
     stage     |-> connect_stage]

(* schedule_retry *)
ScheduleRetry(l) ==
    IF l.attempts < max_connection_attempts
    THEN [l EXCEPT !.pending = @ + 1, !.status = "Retrying in 5 seconds..."]
    ELSE [l EXCEPT !.connected = FALSE, !.status = "ESP32 not found"]

(* connect_to_port, the except branch *)
ConnectFailed(l) ==
    [l EXCEPT !.connected = FALSE, !.status = "Connection failed",
              !.stage = "idle"]

(* connect_to_port up to time.sleep(2): serial.Serial() opens the port or  *)
(* raises                                                                  *)
ConnectBegin(l, opens) ==
    IF opens THEN [l EXCEPT !.stage = "resetting"] ELSE ConnectFailed(l)

(* connect_to_port after time.sleep(2): connected is set and GET_STATUS    *)
(* is written                                                              *)
ConnectReset(l, written) ==
    LET l1 == [l EXCEPT !.connected = TRUE, !.attempts = 0,
                        !.status = "Connected"]
    IN  IF written THEN [l1 EXCEPT !.stage = "syncing"]
        ELSE ConnectFailed(l1)

(* connect_to_port after time.sleep(0.1): GET_FEATURES is written *)
ConnectSync(l, written) ==
    IF written THEN [l EXCEPT !.stage = "idle"] ELSE ConnectFailed(l)

(* auto_connect_serial up to the time.sleep(2) of connect_to_port *)
AutoConnectSerial(l, run, opens) ==
    IF l.connected
    THEN l
    ELSE LET l1 == [l EXCEPT !.attempts = @ + 1,
                             !.status = "Searching for ESP32..."]
         IN  IF run.found
             THEN ConnectBegin(l1, opens)
             ELSE ScheduleRetry(l1)

(* The seconds auto_connect_serial sleeps while it probes *)
Slept(l, run) == IF l.connected THEN 0 ELSE Seconds(run.tenths)

(* The seconds still to sleep in connect_to_port *)
ResetSleep(l) == IF l.stage = "resetting" THEN LoggerConnectSleep ELSE 0

InstallLogger(l) ==
    /\ connection_attempts' = l.attempts
    /\ logger_connected' = l.connected
    /\ connection_status' = l.status
    /\ retry_pending' = l.pending
    /\ connect_stage' = l.stage

(* A handler of the noise logger that receives no line *)
NoIndicatorCall ==
    /\ indicator_calls' = <<>>
    /\ UNCHANGED <<logger_classification, logger_confidence,
                   detection_indicator, elephant_shown_at, logger_queue,
                   receiver_line>>
    /\ UNCHANGED guiVars

(* A root.after callback of auto_connect_serial runs: the one __init__     *)
(* scheduled, a retry, or the one reconnect scheduled                      *)
RetryTimerFires ==
    /\ connect_stage = "idle"
    /\ retry_pending > 0
    /\ connection_attempts < MaxAttempts
    /\ \E run \in ProbeRuns, opens \in BOOLEAN :
          LET l0 == [Logger EXCEPT !.pending = @ - 1]
              l1 == AutoConnectSerial(l0, run, opens)
          IN  /\ now + Slept(l0, run) + ResetSleep(l1) <= MaxTime
              /\ now' = now + Slept(l0, run)
              /\ InstallLogger(l1)
              /\ unattended_attempts' =
                    IF unattended_attempts < 0 \/ logger_connected
                    THEN unattended_attempts
                    ELSE IF l1.stage = "resetting"
                    THEN -1
                    ELSE unattended_attempts + 1
    /\ NoIndicatorCall

(* reconnect_esp32, the Auto Connect button *)
ReconnectEsp32 ==
    /\ connect_stage = "idle"
    /\ \E run \in ProbeRuns, opens \in BOOLEAN :
          LET l0    == [Logger EXCEPT
                           !.attempts = 0,
                           !.connected = FALSE,
                           !.status = IF logger_connected
                                      THEN "Disconnected" ELSE @]
              pause == IF logger_connected THEN ReconnectSleep ELSE 0
              l1    == AutoConnectSerial(l0, run, opens)
          IN  /\ l1.pending <= MaxPending
              /\ now + pause + Slept(l0, run) + ResetSleep(l1) <= MaxTime
              /\ now' = now + pause + Slept(l0, run)
              /\ InstallLogger(l1)
    /\ unattended_attempts' = -1
    /\ NoIndicatorCall

(* reconnect *)
Reconnect ==
    /\ connect_stage = "idle"
    /\ retry_pending < MaxPending
    /\ InstallLogger([Logger EXCEPT !.connected = FALSE,
                                    !.status = "Reconnecting...",
                                    !.pending = @ + 1])
    /\ unattended_attempts' = -1
    /\ NoIndicatorCall
    /\ UNCHANGED now

(* disconnect_esp32 of the noise logger, connected or not *)
LoggerDisconnect ==
    /\ connect_stage = "idle"
    /\ InstallLogger([Logger EXCEPT !.connected = FALSE,
                                    !.status = "Disconnected"])
    /\ unattended_attempts' = -1
    /\ NoIndicatorCall
    /\ UNCHANGED now

(* The manual port dialog: connect_to_port on the selected port, up to     *)
(* its time.sleep(2)                                                       *)
ManualConnect ==
    /\ connect_stage = "idle"
    /\ \E opens \in BOOLEAN :
          LET l1 == ConnectBegin(Logger, opens)
          IN  /\ now + ResetSleep(l1) <= MaxTime
              /\ InstallLogger(l1)
    /\ unattended_attempts' = -1
    /\ NoIndicatorCall
    /\ UNCHANGED now

(* connect_to_port wakes from time.sleep(2) *)
ConnectToPortResets ==
    /\ connect_stage = "resetting"
    /\ \E written \in BOOLEAN : InstallLogger(ConnectReset(Logger, written))
    /\ now' = now + LoggerConnectSleep
    /\ UNCHANGED unattended_attempts
    /\ NoIndicatorCall

(* connect_to_port wakes from time.sleep(0.1) *)
ConnectToPortSyncs ==
    /\ connect_stage = "syncing"
    /\ \E written \in BOOLEAN : InstallLogger(ConnectSync(Logger, written))
    /\ UNCHANGED <<now, unattended_attempts>>
    /\ NoIndicatorCall

(* FEATURES lines of the noise logger: eight feature values, then label    *)
(* and confidence                                                          *)
FeaturesLine(label, conf) ==
    <<"0.5", "0.5", "0.5", "0.5", "0.5", "0.5", "0.5", "0.5", label, conf>>

LoggerLines ==
    {FeaturesLine("elephant", "0.85"), FeaturesLine("elephant", "0.7"),
     FeaturesLine("elephant", "0.6"),
     FeaturesLine("not_elephant", "0.85"), FeaturesLine("elephant", "abc")}

(* data_receiver, the reader thread: connected was found set and          *)
(* readline() returned a non-empty line, whatever the event loop is doing  *)
DataReceiverReads ==
    /\ logger_connected
    /\ receiver_line = <<>>
    /\ \E parts \in LoggerLines : receiver_line' = parts
    /\ UNCHANGED <<now, connection_attempts, logger_connected,
                   connection_status, retry_pending, connect_stage,
                   logger_queue, unattended_attempts, indicator_calls,
                   logger_classification, logger_confidence,
                   detection_indicator, elephant_shown_at>>
    /\ UNCHANGED guiVars

(* data_receiver: self.data_queue.put(line), whatever happened to          *)
(* connected since the line was read                                       *)
DataReceiverPuts ==
    /\ receiver_line # <<>>
    /\ Len(logger_queue) < MaxLoggerQueue
    /\ logger_queue' = Append(logger_queue, receiver_line)
    /\ receiver_line' = <<>>
    /\ UNCHANGED <<now, connection_attempts, logger_connected,
                   connection_status, retry_pending, connect_stage,
                   unattended_attempts, indicator_calls,
                   logger_classification, logger_confidence,
                   detection_indicator, elephant_shown_at>>
    /\ UNCHANGED guiVars

(* data_receiver, the reader thread: a read error clears connected *)
DataReceptionError ==
    /\ logger_connected
    /\ receiver_line = <<>>
    /\ logger_connected' = FALSE
    /\ UNCHANGED <<now, connection_attempts, connection_status,
                   retry_pending, connect_stage, logger_queue, receiver_line,
                   unattended_attempts, indicator_calls,
                   logger_classification, logger_confidence,
                   detection_indicator, elephant_shown_at>>
    /\ UNCHANGED guiVars

(* Variant of the indicator that keeps an elephant text against a          *)
(* non-elephant sample                                                     *)
IndicatorTextSticky(before, classification, confidence) ==
    IF classification = "elephant" /\ confidence > LoggerHighThreshold
    THEN "ELEPHANT DETECTED!"
    ELSE IF classification = "elephant"
            /\ confidence > LoggerMediumThreshold
    THEN "Possible Elephant"
    ELSE IF classification = "elephant"
    THEN "Elephant (Low Confidence)"
    ELSE before

(* update_detection_indicator: the text shown for a sample *)
IndicatorText(before, classification, confidence) ==
    IF classification = "elephant" /\ confidence > LoggerHighThreshold
    THEN "ELEPHANT DETECTED!"
    ELSE IF classification = "elephant"
            /\ confidence > LoggerMediumThreshold
    THEN "Possible Elephant"
    ELSE IF classification = "elephant"
    THEN "Elephant (Low Confidence)"
    ELSE "No Elephant"

(* The fields parse_features works on *)
Display ==
    [classification |-> logger_classification,
     confidence     |-> logger_confidence,
     indicator      |-> detection_indicator,
     shown_at       |-> elephant_shown_at,
     calls          |-> <<>>]

(* parse_features on the parts of one FEATURES line: the label is stored   *)
(* before float(parts[9]) can raise; the indicator is updated at once      *)
ParseFeatures(d, parts, t) ==
    IF Len(parts) >= 10 /\ \A i \in 1..8 : CanFloat(parts[i])
    THEN LET d1 == [d EXCEPT !.classification = Strip(parts[9])]
         IN  IF CanFloat(parts[10])
             THEN LET text == IndicatorText(d.indicator, Strip(parts[9]),
                                            Float(parts[10]))
                  IN  [d1 EXCEPT
                         !.confidence = Float(parts[10]),
                         !.indicator = text,
                         !.shown_at = IF Strip(parts[9]) = "elephant"
                                      THEN t ELSE @,
                         !.calls = Append(@,
                            [t              |-> t,
                             classification |-> Strip(parts[9]),
                             confidence     |-> Float(parts[10]),
                             before         |-> d.indicator,
                             after          |-> text,
                             shown_at       |-> d.shown_at])]
             ELSE d1
    ELSE d

(* The while loop of process_queue over the lines it takes *)
RECURSIVE ProcessLoggerLines(_, _, _)
ProcessLoggerLines(d, batch, t) ==
    IF batch = <<>>
    THEN d
    ELSE ProcessLoggerLines(ParseFeatures(d, Head(batch), t), Tail(batch), t)

(* process_queue, the 15 ms callback: at most max_batch_size queued lines  *)
(* are processed, connected or not                                         *)
ProcessQueue ==
    /\ connect_stage = "idle"
    /\ LET n == IF Len(logger_queue) < max_batch_size
                THEN Len(logger_queue) ELSE max_batch_size
           d == ProcessLoggerLines(Display, SubSeq(logger_queue, 1, n), now)
       IN  /\ logger_queue' = SubSeq(logger_queue, n + 1, Len(logger_queue))
           /\ logger_classification' = d.classification
           /\ logger_confidence' = d.confidence
           /\ detection_indicator' = d.indicator
           /\ elephant_shown_at' = d.shown_at
           /\ indicator_calls' = d.calls
    /\ UNCHANGED <<now, connection_attempts, logger_connected,
                   connection_status, retry_pending, connect_stage,
                   receiver_line, unattended_attempts>>
    /\ UNCHANGED guiVars

(* The connection of the noise logger: retries, buttons, read errors *)
NextReconnect ==
    \/ Advance
    \/ RetryTimerFires
    \/ ReconnectEsp32
    \/ Reconnect
    \/ LoggerDisconnect
    \/ ManualConnect
    \/ ConnectToPortResets
    \/ ConnectToPortSyncs
    \/ DataReceptionError

SpecReconnect == Init /\ [][NextReconnect]_vars

(* The indicator of the noise logger: a port is connected by hand, the     *)
(* reader thread queues lines, the event loop shows them                   *)
NextIndicator ==
    \/ Advance
    \/ ManualConnect
    \/ ConnectToPortResets
    \/ ConnectToPortSyncs
    \/ LoggerDisconnect
    \/ DataReceiverReads
    \/ DataReceiverPuts
    \/ ProcessQueue

SpecIndicator == Init /\ [][NextIndicator]_vars

----------------------------------------------------------------------------
(* Reading the debounce state in the vocabulary of the specification *)

Tiers == {"no_elephant", "elephant_low", "elephant_medium", "elephant_high"}

LockedUntil(d) == d.start + detection_timer_duration

Transitioned(c) == c.after.state # c.before.state

Calls == {calls[i] : i \in DOMAIN calls}

TypeOK ==
    /\ now \in 0..MaxTime
    /\ reader_line \in ReaderLines \cup {NoLine}
    /\ ui_pc \in {"idle", "drain", "tick"}
    /\ Len(ui_writes) <= 5
    /\ Len(ui_taken) <= MaxQueue
    /\ receiver_line \in LoggerLines \cup {<<>>}
    /\ running \in BOOLEAN
    /\ current_classification \in Labels
    /\ current_confidence \in {0} \cup {FloatTable[t] : t \in ConfTokens}
    /\ detection_timer_start \in 0..MaxTime
    /\ last_detection_state \in Tiers
    /\ detection_locked \in BOOLEAN
    /\ parsed_classification \in Labels
    /\ period_continued \in BOOLEAN
    /\ Len(calls) <= 3

----------------------------------------------------------------------------
(* Properties.  c ranges over the update_detection_display calls of the   *)
(* handler that ran last: c.before and c.after are the debounce state      *)
(* around the call, c.new the candidate tier, c.t the time of the call.    *)

None == "no_elephant"

(* C1 - core debounce guarantee: inside the dwell window (tier not NONE,   *)
(* now < locked_until) a call whose candidate tier is NONE or the current  *)
(* tier leaves tier, active_since and locked_until unchanged and does not  *)
(* transition.                                                             *)
C1_DebounceInsideDwell ==
    \A c \in Calls :
        (/\ c.before.state # None
         /\ c.t < LockedUntil(c.before)
         /\ c.new \in {None, c.before.state})
        => /\ c.after.state = c.before.state
           /\ c.after.start = c.before.start
           /\ LockedUntil(c.after) = LockedUntil(c.before)
           /\ c.after.locked = c.before.locked
           /\ ~Transitioned(c)

C1_Witness ==
    \E c \in Calls :
        /\ c.before.state = "elephant_high"
        /\ c.t = c.before.start + 2
        /\ c.new = None
        /\ c.after = c.before

(* C2 - minimum dwell before revert: the tier goes from a non-NONE value   *)
(* to NONE only in a call made at now >= locked_until, that is at least    *)
(* detection_timer_duration after the latest latch or re-lock.             *)
C2_NoRevertBeforeDwell ==
    \A c \in Calls :
        (c.before.state # None /\ c.after.state = None)
        => /\ c.t >= LockedUntil(c.before)
           /\ c.t - c.before.start >= detection_timer_duration

C2_Witness ==
    \E c \in Calls :
        /\ c.before.state # None
        /\ c.after.state = None
        /\ c.t >= LockedUntil(c.before)

(* C3 - immediate escalation: with tier NONE, a call for an "elephant"     *)
(* classification latches the mapped non-NONE tier in that call (HIGH for  *)
(* confidence 0.85), sets active_since = now and locked_until = now + 5,   *)
(* and transitions.                                                        *)
C3_ImmediateEscalation ==
    \A c \in Calls :
        (c.before.state = None /\ c.classification = "elephant")
        => /\ c.after.state # None
           /\ c.after.state = c.new
           /\ (c.confidence = 85 => c.after.state = "elephant_high")
           /\ c.after.start = c.t
           /\ LockedUntil(c.after) = c.t + 5
           /\ c.after.locked
           /\ Transitioned(c)

C3_Witness ==
    \E c \in Calls :
        /\ c.before.state = None
        /\ c.classification = "elephant"
        /\ c.confidence = 85
        /\ c.t > 0
        /\ c.after.state = "elephant_high"
        /\ LockedUntil(c.after) = c.t + 5

(* C4 - release after dwell: with tier not NONE and now >= locked_until    *)
(* (equality included), a call whose candidate tier is NONE sets the tier  *)
(* to NONE, clears the lock and transitions.                               *)
C4_ReleaseAfterDwell ==
    \A c \in Calls :
        (/\ c.before.state # None
         /\ c.t >= LockedUntil(c.before)
         /\ c.new = None)
        => /\ c.after.state = None
           /\ ~c.after.locked
           /\ Transitioned(c)

C4_Witness ==
    \E c \in Calls :
        /\ c.before.state # None
        /\ c.t = LockedUntil(c.before)
        /\ c.new = None
        /\ c.after.state = None
        /\ ~c.after.locked

(* C5 - sustained re-lock: with tier T not NONE and now >= locked_until, a *)
(* call whose candidate tier is T keeps the tier, sets active_since = now  *)
(* and locked_until = now + dwell, and does not transition; a call whose   *)
(* candidate equals the current non-NONE tier never drops the tier.        *)
C5_SustainedRelock ==
    \A c \in Calls :
        (c.before.state # None /\ c.new = c.before.state)
        => /\ c.after.state = c.before.state
           /\ c.after.locked
           /\ ~Transitioned(c)
           /\ (c.t >= LockedUntil(c.before)
               => /\ c.after.start = c.t
                  /\ LockedUntil(c.after) = c.t + detection_timer_duration)

C5_Witness ==
    \E c \in Calls :
        /\ c.before.state = "elephant_high"
        /\ c.new = "elephant_high"
        /\ c.t > LockedUntil(c.before)
        /\ c.after.state = "elephant_high"
        /\ c.after.start = c.t

(* C6 - preemption: a call whose candidate tier is non-NONE and differs    *)
(* from the current non-NONE tier (higher or lower) replaces the tier in   *)
(* that call, also at now < locked_until, sets locked_until = now + dwell  *)
(* and transitions.                                                        *)
C6_Preemption ==
    \A c \in Calls :
        (/\ c.before.state # None
         /\ c.new # None
         /\ c.new # c.before.state)
        => /\ c.after.state = c.new
           /\ c.after.start = c.t
           /\ LockedUntil(c.after) = c.t + detection_timer_duration
           /\ c.after.locked
           /\ Transitioned(c)

C6_Witness ==
    \E c \in Calls :
        /\ c.before.state = "elephant_high"
        /\ c.t = c.before.start + 1
        /\ c.classification = "elephant"
        /\ c.confidence = 35
        /\ c.after.state = "elephant_medium"
        /\ LockedUntil(c.after) = c.before.start + 6

(* C7 - monotonic lock: a call that sets locked_until for a non-NONE tier  *)
(* leaves it >= the now of that call, and over a call in which the tier    *)
(* stays non-NONE locked_until does not decrease.                          *)
C7_MonotonicLock ==
    \A c \in Calls :
        /\ (c.after.state # None
            /\ (c.after.start # c.before.start \/ Transitioned(c)))
           => LockedUntil(c.after) >= c.t
        /\ (c.before.state # None /\ c.after.state # None)
           => LockedUntil(c.after) >= LockedUntil(c.before)

C7_Witness ==
    \E c \in Calls :
        /\ c.before.state # None
        /\ c.after.state # None
        /\ c.after.state # c.before.state
        /\ c.t < LockedUntil(c.before)
        /\ LockedUntil(c.after) > LockedUntil(c.before)

(* C8 - a tier change replaces the tier and restarts the window: one tier  *)
(* value is held, and a call that changes the tier to a non-NONE value     *)
(* sets active_since = now and locked_until = now + dwell, so the window   *)
(* of a non-NONE tier is exactly dwell long and the lock is set.           *)
C8_TierChangeRestartsWindow ==
    /\ last_detection_state \in Tiers
    /\ \A c \in Calls :
          (Transitioned(c) /\ c.after.state # None)
          => /\ c.after.state = c.new
             /\ c.after.start = c.t
             /\ LockedUntil(c.after) = c.t + detection_timer_duration
             /\ LockedUntil(c.after) - c.after.start
                    = detection_timer_duration
             /\ c.after.locked

C8_Witness ==
    \E c \in Calls :
        /\ c.before.state = "elephant_low"
        /\ c.after.state = "elephant_high"
        /\ c.before.start < c.t
        /\ c.after.start = c.t

(* C9 - idempotent no-op: with tier NONE, a call whose candidate is NONE   *)
(* does not transition, leaves the tier NONE and does not modify           *)
(* active_since or locked_until.                                           *)
C9_IdleNoOp ==
    \A c \in Calls :
        (c.before.state = None /\ c.new = None)
        => /\ c.after.state = None
           /\ ~Transitioned(c)
           /\ c.after.start = c.before.start
           /\ c.after.locked = c.before.locked
           /\ ~c.after.locked

C9_Witness ==
    \E c \in Calls :
        /\ c.before.state = None
        /\ c.classification = "not_elephant"
        /\ c.confidence = 85
        /\ c.before.start > 0
        /\ c.t > c.before.start
        /\ c.after = c.before

(* C10 - tier mapping: the candidate tier is NONE for a label other than   *)
(* "elephant" whatever the confidence; otherwise HIGH for confidence >     *)
(* 0.5, MEDIUM for 0.3 < confidence <= 0.5, LOW for confidence <= 0.3.     *)
C10_TierMapping ==
    \A c \in Calls :
        /\ c.classification # "elephant" => c.new = None
        /\ (c.classification = "elephant" /\ c.confidence > 50)
           => c.new = "elephant_high"
        /\ (c.classification = "elephant"
            /\ 30 < c.confidence /\ c.confidence <= 50)
           => c.new = "elephant_medium"
        /\ (c.classification = "elephant" /\ c.confidence <= 30)
           => c.new = "elephant_low"

C10_Witness ==
    \E c \in Calls :
        /\ c.classification = "elephant"
        /\ c.confidence = 50
        /\ c.new = "elephant_medium"
        /\ c.after.state = "elephant_medium"

(* C11 - as stated: once a non-NONE detection state is shown, the same     *)
(* state stays shown for at least 5 seconds before the display changes to  *)
(* anything else.  A period that was not continued started when its state  *)
(* was shown; a continued one has been shown for 5 seconds already.        *)
C11_HeldForDwell ==
    \A c \in Calls :
        (/\ c.before.state # None
         /\ ~c.continued
         /\ c.after.state # c.before.state)
        => c.t - c.before.start >= detection_timer_duration

(* C11 - amended: a non-NONE detection state does not go back to "No       *)
(* Elephant" before 5 seconds have passed since it was shown or            *)
(* continued; before that the display changes only by a different non-NONE *)
(* detection state replacing it, which starts a new 5-second period.       *)
C11_HeldOrReplaced ==
    \A c \in Calls :
        (/\ c.before.state # None
         /\ c.t - c.before.start < detection_timer_duration)
        => /\ c.after.state # None
           /\ c.after.state # c.before.state
              => /\ c.new = c.after.state
                 /\ c.after.start = c.t
                 /\ c.label = LabelConfig(c.new)

C11_Witness ==
    \E c \in Calls :
        /\ c.before.state = "elephant_medium"
        /\ ~c.continued
        /\ c.t - c.before.start = 3
        /\ c.after.state = "elephant_low"
        /\ c.label.text = "Elephant (Low Confidence)"

(* C13 - as stated: every click of the TEST button resets the countdown to *)
(* its full 5 seconds.                                                     *)
C13_TestClickResetsCountdown ==
    \A c \in Calls :
        c.via = "test"
        => /\ c.after.start = c.t
           /\ c.timer.shown
           /\ c.timer.remaining = detection_timer_duration

(* C13 - amended: a click of the TEST button shows the HIGH detection; it  *)
(* resets the countdown to 5 seconds when no HIGH detection is latched or  *)
(* when the latched period has run its 5 seconds, and leaves the running   *)
(* countdown as it is when HIGH is latched and its period is running.      *)
C13_TestClickCountdown ==
    \A c \in Calls :
        c.via = "test"
        => /\ c.new = "elephant_high"
           /\ c.after.state = "elephant_high"
           /\ c.timer.shown
           /\ IF c.before.state = "elephant_high"
                 /\ c.t < LockedUntil(c.before)
              THEN /\ c.after.start = c.before.start
                   /\ c.timer.remaining = LockedUntil(c.before) - c.t
              ELSE /\ c.after.start = c.t
                   /\ c.timer.remaining = detection_timer_duration

C13_Witness ==
    \E c \in Calls :
        /\ c.via = "test"
        /\ c.before.state = "elephant_high"
        /\ c.t = c.before.start + 2
        /\ c.after.start = c.before.start
        /\ c.timer.remaining = 3

(* C14 - the alert rings only in a call that transitions to a non-NONE     *)
(* tier; a call whose candidate equals the current tier does not ring it,  *)
(* inside the window or when it continues the period.                      *)
C14_BellOnlyOnTransition ==
    \A c \in Calls :
        /\ c.bell => (Transitioned(c) /\ c.after.state # None)
        /\ c.new = c.before.state => ~c.bell

C14_Witness ==
    \E c \in Calls :
        /\ c.before.state = "elephant_high"
        /\ c.new = "elephant_high"
        /\ c.t >= LockedUntil(c.before)
        /\ c.after.start = c.t
        /\ ~c.bell

(* C15 - the remaining time shown is max(0, locked_until - now), lies in   *)
(* [0, dwell], is shown exactly when the tier is not NONE, and computing   *)
(* it changes no debounce state.                                           *)
C15_RemainingTime ==
    \A c \in Calls :
        /\ c.timer.shown <=> c.after.state # None
        /\ c.timer.shown
           => /\ c.timer.remaining
                    = IF LockedUntil(c.after) - c.t > 0
                      THEN LockedUntil(c.after) - c.t ELSE 0
              /\ c.timer.remaining >= 0
              /\ c.timer.remaining <= detection_timer_duration
        /\ (/\ c.before.state # None
            /\ c.new = c.before.state
            /\ c.t < LockedUntil(c.before))
           => c.after = c.before

C15_Witness ==
    \E c \in Calls :
        /\ c.via = "tick"
        /\ c.before.state # None
        /\ c.after = c.before
        /\ c.t = c.before.start + 4
        /\ c.timer.shown
        /\ c.timer.remaining = 1

(* C17 - every confidence is accepted and compared as it is: "elephant"    *)
(* with a confidence above 1 gives HIGH, with a confidence below 0 gives   *)
(* LOW, and the call runs its branch as for any other value.               *)
C17_OutOfRangeConfidence ==
    \A c \in Calls :
        /\ (c.classification = "elephant" /\ c.confidence > 100)
           => c.new = "elephant_high"
        /\ (c.classification = "elephant" /\ c.confidence < 0)
           => c.new = "elephant_low"
        /\ (c.confidence > 100 \/ c.confidence < 0)
           => /\ c.after.state \in Tiers
              /\ (c.classification = "elephant" /\ c.before.state = None)
                 => c.after.state = c.new

C17_Witness ==
    \E c \in Calls :
        /\ c.classification = "elephant"
        /\ c.confidence = -10
        /\ c.before.state = None
        /\ c.after.state = "elephant_low"

(* C20 - as stated: "elephant" at 0.85 shows the red "ELEPHANT DETECTED!", *)
(* at 0.6 the orange "Possible Elephant", at 0.35 the gray "Elephant (Low  *)
(* Confidence)", and "not_elephant" the green "No Elephant" (with no       *)
(* detection on display before).                                           *)
C20_ColoursOfTestScript ==
    \A c \in Calls :
        c.before.state = None
        => /\ (c.classification = "elephant" /\ c.confidence = 85)
              => c.label = [text |-> "ELEPHANT DETECTED!", bg |-> "#f44336"]
           /\ (c.classification = "elephant" /\ c.confidence = 60)
              => c.label = [text |-> "Possible Elephant", bg |-> "#FF9800"]
           /\ (c.classification = "elephant" /\ c.confidence = 35)
              => c.label = [text |-> "Elephant (Low Confidence)",
                            bg |-> "#607D8B"]
           /\ c.classification = "not_elephant"
              => c.label = [text |-> "No Elephant", bg |-> "#4CAF50"]

(* C20 - amended: with no detection on display before, "elephant" at 0.85  *)
(* and at 0.6 shows the red "ELEPHANT DETECTED!", at 0.35 the orange       *)
(* "Possible Elephant", at 0.3 or below the gray "Elephant (Low            *)
(* Confidence)", and "not_elephant" the green "No Elephant".               *)
C20_ColoursOfThresholds ==
    \A c \in Calls :
        c.before.state = None
        => /\ (c.classification = "elephant" /\ c.confidence \in {60, 85})
              => c.label = [text |-> "ELEPHANT DETECTED!", bg |-> "#f44336"]
           /\ (c.classification = "elephant" /\ c.confidence = 35)
              => c.label = [text |-> "Possible Elephant", bg |-> "#FF9800"]
           /\ (c.classification = "elephant" /\ c.confidence <= 30)
              => c.label = [text |-> "Elephant (Low Confidence)",
                            bg |-> "#607D8B"]
           /\ c.classification = "not_elephant"
              => c.label = [text |-> "No Elephant", bg |-> "#4CAF50"]

C20_Witness ==
    \E c \in Calls :
        /\ c.before.state = None
        /\ c.classification = "elephant"
        /\ c.confidence = 60
        /\ c.label = [text |-> "ELEPHANT DETECTED!", bg |-> "#f44336"]

(* C16 - a classification line that cannot be parsed (fewer than two      *)
(* parts, or a confidence that is not a number) leaves the stored          *)
(* classification, the stored confidence and the debounce state unchanged. *)
C16_MalformedLineDropped ==
    \A r \in {rejected[i] : i \in DOMAIN rejected} :
        /\ r.stored_kept
        /\ r.debounce_kept

(* C12 - after a detection is latched and no further classification       *)
(* arrives (a single TEST click, nothing connected), the periodic update   *)
(* returns the display to "No Elephant" once the 5 seconds have elapsed:   *)
(* the update made by the callback at now >= locked_until leaves the tier  *)
(* NONE.                                                                   *)
C12_TickReleasesAfterDwell ==
    \A c \in Calls :
        (/\ c.via = "tick"
         /\ c.before.state # None
         /\ c.t >= LockedUntil(c.before))
        => /\ c.after.state = None
           /\ ~c.after.locked

(* C18 - single execution context: a step of the reader thread only holds  *)
(* a line or puts it into the queue and leaves the stored classification,  *)
(* the debounce state and the display as they were; the statements of      *)
(* parse_classification and update_detection_display are executed by the   *)
(* event loop alone, so that, wherever the reader's steps fall between     *)
(* them, a process_data_queue callback ends in the state that the lines it *)
(* took, processed one after the other without interruption, lead to, and  *)
(* whenever no callback is running the display is locked exactly when the  *)
(* tier is not NONE.                                                       *)
C18_ReaderOnlyEnqueues ==
    /\ [](ui_pc = "idle"
           => (detection_locked <=> last_detection_state # None))
    /\ []((ui_pc = "tick" /\ ui_writes = <<>>)
           => Fields(Self)
                = Fields(ProcessDataQueueResult(
                      [Self EXCEPT
                         !.current_classification =
                             ui_start.fields.current_classification,
                         !.current_confidence =
                             ui_start.fields.current_confidence,
                         !.detection_timer_start =
                             ui_start.fields.detection_timer_start,
                         !.last_detection_state =
                             ui_start.fields.last_detection_state,
                         !.detection_locked =
                             ui_start.fields.detection_locked,
                         !.detection_label =
                             ui_start.fields.detection_label],
                      ui_taken, now)))
    /\ [][(reader_line' # reader_line
             \/ Len(data_queue') > Len(data_queue))
            => /\ UNCHANGED objectVars
               /\ UNCHANGED <<calls, rejected>>]_vars

(* A callback has run to its end after the port was disconnected: it began *)
(* with an empty queue and no detection shown, the reader put the line it  *)
(* had read before the disconnection while the callback was running, and   *)
(* the callback took it and started the period                             *)
C18_Witness ==
    /\ ui_pc = "tick"
    /\ ui_writes = <<>>
    /\ ~connected
    /\ ui_start.queued = 0
    /\ ui_start.fields.last_detection_state = None
    /\ Len(ui_taken) = 1
    /\ ui_taken[1].parts[1] = "elephant"
    /\ detection_locked
    /\ last_detection_state = "elephant_high"
    /\ detection_timer_start = now

(* C19 - the display state starts at NONE, unlocked, and only              *)
(* update_detection_display changes it: a step that changes tier, lock or  *)
(* timer start made a call that changed them, and a step that connects,    *)
(* disconnects, writes a command or touches the labeling session leaves    *)
(* tier, lock and timer start unchanged.                                   *)
C19_OnlyDebounceChangesDisplay ==
    /\ last_detection_state = None /\ ~detection_locked
    /\ [][/\ Debounce(Self)' # Debounce(Self)
              => \E i \in DOMAIN calls' : calls'[i].after # calls'[i].before
           /\ (\/ connected' # connected
               \/ serial_out' # <<>>
               \/ <<is_labeling, current_label, labeling_start_time,
                     labeling_buffer, labeling_progress, training_data>>'
                  # <<is_labeling, current_label, labeling_start_time,
                       labeling_buffer, labeling_progress, training_data>>)
              => UNCHANGED <<last_detection_state, detection_locked,
                             detection_timer_start>>]_vars

(* A labeling session has just finished and written its label while a      *)
(* detection is latched inside its window                                  *)
C19_Witness ==
    /\ last_detection_state = "elephant_high"
    /\ detection_locked
    /\ 0 < now - detection_timer_start
    /\ now - detection_timer_start < detection_timer_duration
    /\ training_data # <<>>
    /\ ~is_labeling
    /\ serial_out # <<>>
    /\ serial_out[1].cmd = "LABEL"

(* C21 - as stated: a call for an "elephant" classification whose          *)
(* confidence is not above 0.3 latches no detection state and does not     *)
(* start the 5-second timer.                                               *)
C21_BelowThresholdNoDetection ==
    \A c \in Calls :
        (c.classification = "elephant" /\ c.confidence <= MediumThreshold)
        => /\ ~(Transitioned(c) /\ c.after.state # None)
           /\ c.after.start = c.before.start

(* C21 - what the code does: an "elephant" classification whose confidence *)
(* is not above 0.3 is the detection state elephant_low; unless            *)
(* elephant_low is already shown, the call latches it, locks the display   *)
(* and starts the 5-second timer at the time of the call, without ringing  *)
(* the bell.                                                               *)
C21_BelowThresholdLatchesLow ==
    \A c \in Calls :
        (/\ c.classification = "elephant"
         /\ c.confidence <= MediumThreshold
         /\ c.before.state # "elephant_low")
        => /\ c.after = [state |-> "elephant_low", locked |-> TRUE,
                         start |-> c.t]
           /\ c.label.text = LabelText("elephant_low")
           /\ ~c.bell

(* The display was free and an elephant at exactly 0.3 latched             *)
(* elephant_low after the clock had moved                                  *)
C21_Witness ==
    \E c \in Calls :
        /\ c.classification = "elephant"
        /\ c.confidence = MediumThreshold
        /\ c.before.state = None
        /\ c.t > 0
        /\ c.after.state = "elephant_low"
        /\ c.after.locked
        /\ c.after.start = c.t

(* C22 - bounded release: a call made while the display is locked and the  *)
(* classification parsed last is not "elephant" never re-locks (the        *)
(* timer start stays), and if it is made at or after locked_until the      *)
(* tier becomes NONE, whether the call comes from a line or from the tick. *)
C22_BoundedRelease ==
    \A c \in Calls :
        (c.parsed # "elephant" /\ c.before.locked)
        => /\ c.after.start = c.before.start
           /\ c.t >= LockedUntil(c.before) => c.after.state = None

(* C23 - lock/tier consistency: in every reachable state detection_locked  *)
(* is True exactly when last_detection_state is not "no_elephant", and so  *)
(* it is before and after every call of update_detection_display.          *)
C23_LockTierConsistency ==
    /\ detection_locked <=> last_detection_state # None
    /\ \A c \in Calls :
          /\ c.before.locked <=> c.before.state # None
          /\ c.after.locked <=> c.after.state # None

(* A call has just released a latched detection: lock and tier were set    *)
(* before it and are both cleared after it                                 *)
C23_Witness ==
    /\ ~detection_locked
    /\ last_detection_state = None
    /\ \E c \in Calls :
          /\ c.before.locked
          /\ c.before.state = "elephant_medium"
          /\ c.after.state = None
          /\ ~c.after.locked

(* C24 - the periodic tick: the update that process_data_queue runs after  *)
(* draining the queue runs only while the display is locked, ends with the *)
(* tier it found or with NONE, and never rings the bell, whatever lines    *)
(* were received.                                                          *)
C24_TickReleasesOrRelocks ==
    \A c \in Calls :
        c.via = "tick"
        => /\ c.before.locked
           /\ c.after.state \in {None, c.before.state}
           /\ ~c.bell

(* C25 - the duplicated implementations are equivalent: after every        *)
(* sequence of update_detection_display calls with the same                *)
(* classification, confidence and time, AdvancedElephantGUI and            *)
(* MockDetectionTest hold the same last_detection_state, detection_locked  *)
(* and detection_timer_start as SimpleElephantGUI.                         *)
C25_ImplementationsEquivalent ==
    /\ advanced = Debounce(Self)
    /\ mock = Debounce(Self)

(* All three have continued an elephant_medium period after its 5 seconds  *)
(* and agree on the restarted timer                                        *)
C25_Witness ==
    /\ period_continued
    /\ last_detection_state = "elephant_medium"
    /\ detection_timer_start >= detection_timer_duration
    /\ advanced.state = "elephant_medium"
    /\ advanced.start = detection_timer_start
    /\ mock.start = detection_timer_start
    /\ mock.locked

(* The update_detection_indicator calls of the noise logger's last handler *)
IndicatorCalls == {indicator_calls[i] : i \in DOMAIN indicator_calls}

ElephantTexts ==
    {"ELEPHANT DETECTED!", "Possible Elephant", "Elephant (Low Confidence)"}

(* C26 - as stated, for ESP32NoiseLoggerGUI: a non-elephant sample that    *)
(* arrives less than 5 seconds after an elephant detection was shown       *)
(* leaves the detection indicator unchanged.                               *)
C26_LoggerHoldsIndicator ==
    \A c \in IndicatorCalls :
        (/\ c.classification # "elephant"
         /\ c.before \in ElephantTexts
         /\ c.shown_at >= 0
         /\ c.t - c.shown_at < detection_timer_duration)
        => c.after = c.before

(* C26 - what the code does: ESP32NoiseLoggerGUI has no dwell window; its  *)
(* indicator shows every parsed sample at once, whatever it showed before  *)
(* and however recently: "No Elephant" for a non-elephant sample, the high *)
(* text for an elephant above 0.8, the middle text for one above 0.6 and   *)
(* at most 0.8, the low text for one at 0.6 or less; the indicator is left *)
(* showing the text of the last sample.                                    *)
C26_LoggerShowsEverySample ==
    /\ \A c \in IndicatorCalls :
          /\ c.classification # "elephant" => c.after = "No Elephant"
          /\ (c.classification = "elephant" /\ c.confidence > 80)
             => c.after = "ELEPHANT DETECTED!"
          /\ (c.classification = "elephant"
              /\ c.confidence > 60 /\ c.confidence <= 80)
             => c.after = "Possible Elephant"
          /\ (c.classification = "elephant" /\ c.confidence <= 60)
             => c.after = "Elephant (Low Confidence)"
    /\ indicator_calls # <<>>
       => detection_indicator = indicator_calls[Len(indicator_calls)].after

(* One second after the indicator showed "Possible Elephant" for a sample  *)
(* of confidence 0.7, a non-elephant sample has replaced it; the reader    *)
(* had read its line before the port was disconnected and the line was     *)
(* shown afterwards                                                        *)
C26_Witness ==
    /\ ~logger_connected
    /\ \E c \in IndicatorCalls :
          /\ c.classification = "not_elephant"
          /\ c.before = "Possible Elephant"
          /\ c.t - c.shown_at = 1
          /\ c.after = "No Elephant"
          /\ detection_indicator = "No Elephant"

(* C29 - automatic retry terminates: as long as no attempt has succeeded   *)
(* and the user has done nothing, at most max_connection_attempts attempts *)
(* are made, and once no auto_connect_serial callback is pending exactly   *)
(* max_connection_attempts have been made; whenever the logger is          *)
(* connected connection_attempts is 0.                                     *)
C29_RetryTerminates ==
    /\ unattended_attempts <= max_connection_attempts
    /\ (unattended_attempts >= 0 /\ retry_pending = 0)
       => unattended_attempts = max_connection_attempts
    /\ logger_connected => connection_attempts = 0

(* C30 - the attempt counter stays within its bound in every reachable     *)
(* state, whatever the interleaving of retry callbacks with the buttons.   *)
C30_AttemptsWithinBound ==
    connection_attempts <= max_connection_attempts


(* C27 - at most one labeling session is active at a time: a call of       *)
(* start_labeling made while is_labeling is True, or while not connected,  *)
(* is refused and leaves is_labeling, current_label, labeling_start_time,  *)
(* labeling_buffer, labeling_progress and training_data as they were.      *)
C27_RefusedStartChangesNothing ==
    [][(StartLabeling /\ (is_labeling \/ ~connected))
       => UNCHANGED <<is_labeling, current_label, labeling_start_time,
                      labeling_buffer, labeling_progress,
                      training_data>>]_vars

(* A start was refused while a session with a buffered sample was running, *)
(* after its first second                                                  *)
C27_Witness ==
    /\ start_refusal = "Already labeling"
    /\ is_labeling
    /\ labeling_buffer > 0
    /\ labeling_progress > 0

(* C28 - every started labeling session ends: with the progress timer      *)
(* firing fairly, is_labeling returns to False, with labeling_buffer       *)
(* empty, current_label None and labeling_progress 0; the session ends     *)
(* only once 5 seconds have elapsed since labeling_start_time; a session   *)
(* that buffered at least one sample appends exactly one training_data     *)
(* entry, of its label, whose samples_count is the number of buffered      *)
(* samples, a session with an empty buffer appends none, and nothing is    *)
(* appended before the session ends (clear_data may empty training_data    *)
(* meanwhile).                                                             *)
C28_SessionEnds ==
    /\ is_labeling ~> (/\ ~is_labeling
                       /\ labeling_buffer = 0
                       /\ current_label = "None"
                       /\ labeling_progress = 0)
    /\ [][/\ (is_labeling /\ ~is_labeling')
             => /\ now - labeling_start_time >= labeling_duration
                /\ labeling_buffer' = 0
                /\ current_label' = "None"
                /\ labeling_progress' = 0
                /\ \E n \in {labeling_buffer, labeling_buffer + 1} :
                      training_data' =
                         IF n > 0
                         THEN Append(training_data,
                                     [label         |-> current_label,
                                      samples_count |-> n])
                         ELSE training_data
          /\ (is_labeling /\ is_labeling')
             => training_data' \in {training_data, <<>>}]_vars

(* A session that buffered a sample has ended, five seconds after its      *)
(* start, and its entry is the only one                                    *)
C28_Witness ==
    /\ ~is_labeling
    /\ now >= labeling_start_time + labeling_duration
    /\ Len(training_data) = 1
    /\ training_data[1].samples_count >= 1
    /\ labeling_buffer = 0
    /\ current_label = "None"
    /\ labeling_progress = 0

====
